---- MODULE Spec2Model ----
(***************************************************************************)
(* A model of py-libhdate's calendar conversion engine                     *)
(* (src/hdate/hdate_julian.py) and of the Zmanim composer                  *)
(* (src/hdate/zmanim.py).                                                  *)
(*                                                                         *)
(* hdate_julian.py has no "from __future__ import division": its "/" on    *)
(* ints is Python 2's floor division, which on the non-negative operands   *)
(* that occur here is the truncating division \div below.                  *)
(***************************************************************************)
EXTENDS Integers, Sequences, FiniteSets

VARIABLES
    pc,        \* position of the conversion pipeline / of the year engine
    gdate,     \* the civil date <<day, month, year>> handed to gdate_to_jd
    jdn,       \* Julian day number returned by gdate_to_jd
    gres,      \* <<day, month, year>> returned by jd_to_gdate(jdn)
    hres,      \* <<day, month, year, jd_tishrey1, jd_tishrey1_next_year>> of jd_to_hdate(jdn)
    hjd,       \* <<jday, jd_tishrey1, jd_tishrey1_next_year>> of hdate_to_jd
    hyear,     \* the Hebrew year handed to the year engine
    days3744,  \* _days_from_3744(hyear)
    size,      \* _get_size_of_hebrew_year(hyear)
    today,     \* HDate(self.date): [is_shabbat, is_yom_tov]
    tomorrow,  \* HDate(self.date + 1 day): [is_shabbat, is_yom_tov]
    candle_lighting_offset,  \* Zmanim.candle_lighting_offset, minutes
    havdalah_offset,         \* Zmanim.havdalah_offset, minutes
    time,      \* Zmanim.time, the current time: an instant
    sunrise,   \* Zmanim.sunrise, minutes from 00:00 UTC of self.date
    sunset,    \* Zmanim.sunset, minutes from 00:00 UTC of self.date
    noon,      \* 720 - 4 * longitude - eqtime of the location and date
    hour_angle,  \* per altitude: the hour angle in minutes, or ValueError
    call,      \* the last property or method of Zmanim that was evaluated
    result,    \* what it returned or raised
    hprev,     \* jd_to_hdate(jdn - 1), once the Julian day was stepped
    hdate_in,  \* a Hebrew <<day, month, year>> handed in by a caller
    hout,      \* what HebrewDate(...) or hdate_to_jd(...) did with hdate_in
    new_year_dw,  \* the weekday handed to get_year_type
    year_type     \* what get_year_type returned or raised

calVars == <<gdate, jdn, gres, hres, hjd, hprev>>
hebVars == <<hdate_in, hout>>
typeVars == <<new_year_dw, year_type>>
yearVars == <<hyear, days3744, size>>
zmFields == <<today, tomorrow, candle_lighting_offset, havdalah_offset, time,
              sunrise, sunset, noon, hour_angle>>
zmVars == <<zmFields, call, result>>
vars == <<pc, calVars, yearVars, zmVars, hebVars, typeVars>>

\* A variable that holds nothing yet.
NotYet == <<>>

-----------------------------------------------------------------------------
(* Bounds of the model: the civil years the conversions are run on.        *)
MinYear == 1800
MaxYear == 2200

-----------------------------------------------------------------------------
(* hdate_julian.py: the constants and the Hebrew year engine               *)

PARTS_IN_HOUR == 1080

get_chalakim(hours, parts) == (hours * PARTS_IN_HOUR) + parts

PARTS_IN_DAY == 24 * PARTS_IN_HOUR
PARTS_IN_WEEK == 7 * PARTS_IN_DAY
PARTS_IN_MONTH == PARTS_IN_DAY + get_chalakim(12, 793)

\* MoladZaken without its second window (weekday 2, 15h 589p).
MoladZaken_NoSecondWindow(leap_left, week_day, parts_left_in_day) ==
    leap_left < 12 /\ week_day = 3
    /\ parts_left_in_day >= get_chalakim(9 + 6, 204)

\* Special cases of Molad Zaken (the condition of the first if).
MoladZaken(leap_left, week_day, parts_left_in_day) ==
    \/ (leap_left < 12 /\ week_day = 3
        /\ parts_left_in_day >= get_chalakim(9 + 6, 204))
    \/ (leap_left < 7 /\ week_day = 2
        /\ parts_left_in_day >= get_chalakim(15 + 6, 589))

\* ADU without the test of weekday 6.
ADU_NoSix(week_day) == week_day = 1 \/ week_day = 4

\* ADU (the condition of the second if).
ADU(week_day) == week_day = 1 \/ week_day = 4 \/ week_day = 6

\* LeapMonths without the "+ 1" of the cycle's phase.
LeapMonths_NoPhase(years_from_3744) == (years_from_3744 * 7) \div 19

\* "Number of leap months" of the years since 3744.
LeapMonths(years_from_3744) == (years_from_3744 * 7 + 1) \div 19

\* The molad of Tishrei of hebrew_year, before the deferments: the code of
\* _days_from_3744 up to "Special cases of Molad Zaken".
Molad(hebrew_year) ==
    LET years_from_3744 == hebrew_year - 3744
        molad_3744 == get_chalakim(1 + 6, 779)
        leap_months == LeapMonths(years_from_3744)
        leap_left == (years_from_3744 * 7 + 1) % 19
        months == years_from_3744 * 12 + leap_months
        parts == months * PARTS_IN_MONTH + molad_3744
        days == months * 28 + parts \div PARTS_IN_DAY - 2
        parts_left_in_week == parts % PARTS_IN_WEEK
        parts_left_in_day == parts % PARTS_IN_DAY
        week_day == parts_left_in_week \div PARTS_IN_DAY
    IN  [leap_left |-> leap_left, days |-> days, week_day |-> week_day,
         parts_left_in_day |-> parts_left_in_day]

\* Whether the Molad Zaken deferment applies to hebrew_year.
IsZaken(hebrew_year) ==
    LET m == Molad(hebrew_year)
    IN  MoladZaken(m.leap_left, m.week_day, m.parts_left_in_day)

\* The deferments of _days_from_3744, from "Special cases of Molad Zaken"
\* on, applied to the molad m.
Deferred(m) ==
    LET zaken == MoladZaken(m.leap_left, m.week_day, m.parts_left_in_day)
        days == IF zaken THEN m.days + 1 ELSE m.days
        week_day == IF zaken THEN m.week_day + 1 ELSE m.week_day
    IN  IF ADU(week_day) THEN days + 1 ELSE days

_days_from_3744(hebrew_year) == Deferred(Molad(hebrew_year))

_get_size_of_hebrew_year(hebrew_year) ==
    _days_from_3744(hebrew_year + 1) - _days_from_3744(hebrew_year)

-----------------------------------------------------------------------------
(* hdate_julian.py: the Julian day converter                               *)

gdate_to_jd(day, month, year) ==
    LET not_jan_or_feb == (14 - month) \div 12
        year_since_4800bc == year + 4800 - not_jan_or_feb
        month_since_4800bc == month + 12 * not_jan_or_feb - 3
    IN  day + (153 * month_since_4800bc + 2) \div 5 + 365 * year_since_4800bc
        + (year_since_4800bc \div 4 - year_since_4800bc \div 100
           + year_since_4800bc \div 400) - 32045

\* hdate_to_jd without the "day += 30" of month 14 (Adar II).
hdate_to_jd_NoAdarII(day_in, month_in, year) ==
    LET month == IF month_in = 13 \/ month_in = 14 THEN 6 ELSE month_in
        days_from_3744 == _days_from_3744(year)
        day1 == days_from_3744 + (59 * (month - 1) + 1) \div 2 + day_in
        length_of_year == _days_from_3744(year + 1) - days_from_3744
        day2 == IF length_of_year % 10 > 4 /\ month > 2 THEN day1 + 1 ELSE day1
        day3 == IF length_of_year % 10 < 4 /\ month > 3 THEN day2 - 1 ELSE day2
        day4 == IF length_of_year > 365 /\ month > 6 THEN day3 + 30 ELSE day3
    IN  <<day4 + 1715118, days_from_3744 + 1715119,
          days_from_3744 + 1715119 + length_of_year>>

hdate_to_jd(day_in, month_in, year) ==
    LET month == IF month_in = 13 \/ month_in = 14 THEN 6 ELSE month_in
        day0 == IF month_in = 14 THEN day_in + 30 ELSE day_in
        days_from_3744 == _days_from_3744(year)
        day1 == days_from_3744 + (59 * (month - 1) + 1) \div 2 + day0
        length_of_year == _days_from_3744(year + 1) - days_from_3744
        day2 == IF length_of_year % 10 > 4 /\ month > 2 THEN day1 + 1 ELSE day1
        day3 == IF length_of_year % 10 < 4 /\ month > 3 THEN day2 - 1 ELSE day2
        day4 == IF length_of_year > 365 /\ month > 6 THEN day3 + 30 ELSE day3
        jday == day4 + 1715118
        jd_tishrey1 == days_from_3744 + 1715119
        jd_tishrey1_next_year == jd_tishrey1 + length_of_year
    IN  <<jday, jd_tishrey1, jd_tishrey1_next_year>>

\* jd_to_gdate with the "+ 3" of the century correction left out.
jd_to_gdate_NoRound(jday) ==
    LET l0 == jday + 68569
        n == (4 * l0) \div 146097
        l1 == l0 - (146097 * n) \div 4
        i == (4000 * (l1 + 1)) \div 1461001
        l2 == l1 - (1461 * i) \div 4 + 31
        j == (80 * l2) \div 2447
        day == l2 - (2447 * j) \div 80
        l3 == j \div 11
    IN  <<day, j + 2 - (12 * l3), 100 * (n - 49) + i + l3>>

jd_to_gdate(jday) ==
    LET l0 == jday + 68569
        n == (4 * l0) \div 146097
        l1 == l0 - (146097 * n + 3) \div 4
        i == (4000 * (l1 + 1)) \div 1461001
        l2 == l1 - (1461 * i) \div 4 + 31
        j == (80 * l2) \div 2447
        day == l2 - (2447 * j) \div 80
        l3 == j \div 11
        month == j + 2 - (12 * l3)
        year == 100 * (n - 49) + i + l3
    IN  <<day, month, year>>

\* LastMonths without the "if leap" shift of the months before Nisan to
\* the Adar I and Adar II codes.
LastMonths_NoLeapShift(days0, size_of_year) ==
    LET days == days0 - (size_of_year - 236)
        month0 == (days * 2) \div 59
        day == days - (month0 * 59 + 1) \div 2 + 1
    IN  <<day, month0 + 4 + 1>>

\* The month and day of a day in the last 8 months (the if branch).
LastMonths(days0, size_of_year) ==
    LET days == days0 - (size_of_year - 236)
        month0 == (days * 2) \div 59
        day == days - (month0 * 59 + 1) \div 2 + 1
        month1 == month0 + 4 + 1
        month == IF size_of_year > 355 /\ month1 <= 6 THEN month1 + 8 ELSE month1
    IN  <<day, month>>

\* FirstMonths with the short-Kislev branch computing the day as the
\* regular branch does ("+ 1" for "+ 2").
FirstMonths_KislevDay(days, size_of_year) ==
    LET md == IF size_of_year % 10 > 4 /\ days = 59
                THEN <<1, 30>>
              ELSE IF size_of_year % 10 > 4 /\ days > 59
                THEN LET month == ((days - 1) * 2) \div 59
                     IN  <<month, days - (month * 59 + 1) \div 2>>
              ELSE IF size_of_year % 10 < 4 /\ days > 87
                THEN LET month == ((days + 1) * 2) \div 59
                     IN  <<month, days - (month * 59 + 1) \div 2 + 1>>
              ELSE LET month == (days * 2) \div 59
                   IN  <<month, days - (month * 59 + 1) \div 2 + 1>>
    IN  <<md[2], md[1] + 1>>

\* The month and day of a day in the first 4-5 months (the else branch).
FirstMonths(days, size_of_year) ==
    LET md == IF size_of_year % 10 > 4 /\ days = 59
                THEN <<1, 30>>
              ELSE IF size_of_year % 10 > 4 /\ days > 59
                THEN LET month == ((days - 1) * 2) \div 59
                     IN  <<month, days - (month * 59 + 1) \div 2>>
              ELSE IF size_of_year % 10 < 4 /\ days > 87
                THEN LET month == ((days + 1) * 2) \div 59
                     IN  <<month, days - (month * 59 + 1) \div 2 + 2>>
              ELSE LET month == (days * 2) \div 59
                   IN  <<month, days - (month * 59 + 1) \div 2 + 1>>
    IN  <<md[2], md[1] + 1>>

\* The year guess left as it is, with no check for an underestimate.
GuessYear_NoCorrection(jday, gyear) ==
    <<gyear + 3760,
      _days_from_3744(gyear + 3760) + 1715119,
      _days_from_3744(gyear + 3761) + 1715119>>

\* "Check if computed year was underestimated": the corrected
\* <<year, jd_tishrey1, jd_tishrey1_next_year>>.
GuessYear(jday, gyear) ==
    LET year == gyear + 3760
        jd_tishrey1 == _days_from_3744(year) + 1715119
        jd_tishrey1_next_year == _days_from_3744(year + 1) + 1715119
    IN  IF jd_tishrey1_next_year <= jday
          THEN <<year + 1, jd_tishrey1_next_year,
                 _days_from_3744(year + 2) + 1715119>>
          ELSE <<year, jd_tishrey1, jd_tishrey1_next_year>>

\* The rest of jd_to_hdate, from "size_of_year = ..." on, for the corrected
\* y = <<year, jd_tishrey1, jd_tishrey1_next_year>>.
HdateInYear(jday, y) ==
    LET size_of_year == y[3] - y[2]
        days == jday - y[2]
        dm == IF days >= (size_of_year - 236)
                THEN LastMonths(days, size_of_year)
                ELSE FirstMonths(days, size_of_year)
    IN  <<dm[1], dm[2], y[1], y[2], y[3]>>

jd_to_hdate(jday) == HdateInYear(jday, GuessYear(jday, jd_to_gdate(jday)[3]))

-----------------------------------------------------------------------------
(* The civil dates the conversions are run on.                             *)

IsLeapYear(y) == (y % 4 = 0 /\ y % 100 # 0) \/ y % 400 = 0

DaysInMonth(m, y) ==
    IF m = 2 THEN (IF IsLeapYear(y) THEN 29 ELSE 28)
    ELSE IF m \in {4, 6, 9, 11} THEN 30 ELSE 31

\* day, month, year is a date of the Gregorian calendar.
IsCivilDate(d, m, y) == m \in 1..12 /\ d >= 1 /\ d <= DaysInMonth(m, y)

-----------------------------------------------------------------------------
(* The conversion pipeline: a civil date is converted to its Julian day,   *)
(* the Julian day back to a civil date and on to a Hebrew date, and the    *)
(* Hebrew date back to its Julian day.                                     *)

YearIdle == hyear = NotYet /\ days3744 = NotYet /\ size = NotYet

HebIdle == hdate_in = NotYet /\ hout = NotYet

TypeIdle == new_year_dw = NotYet /\ year_type = NotYet

ZmanimIdle ==
    /\ today = NotYet /\ tomorrow = NotYet
    /\ candle_lighting_offset = NotYet /\ havdalah_offset = NotYet
    /\ time = NotYet /\ sunrise = NotYet /\ sunset = NotYet
    /\ noon = NotYet /\ hour_angle = NotYet
    /\ call = NotYet /\ result = NotYet

InitCal ==
    /\ pc = "civil"
    /\ \E y \in MinYear..MaxYear, m \in 1..12, d \in 1..31 :
          IsCivilDate(d, m, y) /\ gdate = <<d, m, y>>
    /\ jdn = NotYet /\ gres = NotYet /\ hres = NotYet /\ hjd = NotYet
    /\ hprev = NotYet
    /\ YearIdle /\ ZmanimIdle /\ HebIdle /\ TypeIdle

GdateToJd ==
    /\ pc = "civil"
    /\ jdn' = gdate_to_jd(gdate[1], gdate[2], gdate[3])
    /\ pc' = "jd"
    /\ UNCHANGED <<gdate, gres, hres, hjd, hprev, yearVars, zmVars, hebVars, typeVars>>

JdToGdate ==
    /\ pc = "jd"
    /\ gres' = jd_to_gdate(jdn)
    /\ pc' = "gdate"
    /\ UNCHANGED <<gdate, jdn, hres, hjd, hprev, yearVars, zmVars, hebVars, typeVars>>

JdToHdate ==
    /\ pc = "jd"
    /\ hres' = jd_to_hdate(jdn)
    /\ pc' = "hdate"
    /\ UNCHANGED <<gdate, jdn, gres, hjd, hprev, yearVars, zmVars, hebVars, typeVars>>

HdateToJd ==
    /\ pc = "hdate"
    /\ hjd' = hdate_to_jd(hres[1], hres[2], hres[3])
    /\ pc' = "hjd"
    /\ UNCHANGED <<gdate, jdn, gres, hres, hprev, yearVars, zmVars, hebVars, typeVars>>

\* jd_to_hdate of the following Julian day; hprev keeps the result for
\* the day before.
StepDay ==
    /\ pc = "hdate"
    /\ jdn' = jdn + 1
    /\ hprev' = hres
    /\ hres' = jd_to_hdate(jdn + 1)
    /\ pc' = "stepped"
    /\ UNCHANGED <<gdate, gres, hjd, yearVars, zmVars, hebVars, typeVars>>

NextCal == GdateToJd \/ JdToGdate \/ JdToHdate \/ HdateToJd \/ StepDay

SpecCal == InitCal /\ [][NextCal]_vars

-----------------------------------------------------------------------------
(* The Hebrew year engine, run on the Hebrew years the civil years of the  *)
(* model overlap: the guess civil year + 3760 and the year after it.       *)

HebrewYears == (MinYear + 3760)..(MaxYear + 3761)

CalIdle ==
    /\ gdate = NotYet /\ jdn = NotYet /\ gres = NotYet /\ hres = NotYet
    /\ hjd = NotYet /\ hprev = NotYet

InitYear ==
    /\ pc = "year"
    /\ hyear \in HebrewYears
    /\ days3744 = NotYet /\ size = NotYet
    /\ CalIdle /\ ZmanimIdle /\ HebIdle /\ TypeIdle

DaysFrom3744 ==
    /\ pc = "year"
    /\ days3744' = _days_from_3744(hyear)
    /\ pc' = "days"
    /\ UNCHANGED <<hyear, size, calVars, zmVars, hebVars, typeVars>>

GetSizeOfHebrewYear ==
    /\ pc = "days"
    /\ size' = _get_size_of_hebrew_year(hyear)
    /\ pc' = "size"
    /\ UNCHANGED <<hyear, days3744, calVars, zmVars, hebVars, typeVars>>

NextYear == DaysFrom3744 \/ GetSizeOfHebrewYear

SpecYear == InitYear /\ [][NextYear]_vars

-----------------------------------------------------------------------------
(* zmanim.py: the values of the Zmanim composer.  An instant is counted in *)
(* minutes from basetime, 00:00 UTC of self.date, and carries its time     *)
(* zone; a call returns None, a datetime, a number of minutes or a bool,   *)
(* or raises.                                                              *)

None == [kind |-> "None"]
Datetime(m, tz) == [kind |-> "datetime", min |-> m, tz |-> tz]
Bool(b) == [kind |-> "bool", val |-> b]
Raise(exc) == [kind |-> "raise", exc |-> exc]
IsRaise(x) == x.kind = "raise"

\* datetime + timedelta(minutes=m); an exception raised by the operand
\* propagates.
PlusMinutes(x, m) == IF IsRaise(x) THEN x ELSE [x EXCEPT !.min = @ + m]

\* datetime.astimezone(tz): the same instant in another zone.
AsTimezone(x, tz) == IF IsRaise(x) THEN x ELSE [x EXCEPT !.tz = tz]

\* a < b and a > b of aware datetimes: the instants are compared, and a
\* comparison with None raises TypeError.
Lt(a, b) ==
    IF IsRaise(a) THEN a
    ELSE IF IsRaise(b) THEN b
    ELSE IF a.kind # "datetime" \/ b.kind # "datetime" THEN Raise("TypeError")
    ELSE Bool(a.min < b.min)

Gt(a, b) ==
    IF IsRaise(a) THEN a
    ELSE IF IsRaise(b) THEN b
    ELSE IF a.kind # "datetime" \/ b.kind # "datetime" THEN Raise("TypeError")
    ELSE Bool(a.min > b.min)

\* The sun altitudes the composer asks for, in 1/10000 of a degree.
SUNRISE_DEG == 908333
ALOT_HASHACHAR_DEG == 1061000
MISHEYAKIR_DEG == 1010000
TSET_HAKOCHAVIM_DEG == 960000
MOTSEI_SHABBAT_DEG == 985000

\* What _get_utc_sun_time_deg returns when math.acos raises ValueError.
SENTINEL == -720

\* hour_angle[deg] is what the try block of _get_utc_sun_time_deg finds
\* for the location and date: [ok |-> FALSE] when math.acos raises
\* ValueError, else the hour angle in minutes; noon is
\* 720.0 - 4.0 * longitude - eqtime.
_get_utc_sun_time_deg(deg) ==
    IF ~hour_angle[deg].ok
      THEN <<SENTINEL, SENTINEL>>
      ELSE <<noon - hour_angle[deg].minutes, noon + hour_angle[deg].minutes>>

shaa_zmanit_gra == (sunset - sunrise) \div 12
midday == (sunset + sunrise) \div 2
alot_hashachar == _get_utc_sun_time_deg(ALOT_HASHACHAR_DEG)[1]
misheyakir == _get_utc_sun_time_deg(MISHEYAKIR_DEG)[1]
tset_hakochavim == _get_utc_sun_time_deg(TSET_HAKOCHAVIM_DEG)[2]
motsei_shabbat == _get_utc_sun_time_deg(MOTSEI_SHABBAT_DEG)[2]

\* The zmanim whose value is a whole number of minutes.
ZmanKeys ==
    {"sunrise", "sunset", "shaa_zmanit_gra", "midday", "alot_hashachar",
     "misheyakir", "tset_hakochavim", "motsei_shabbat"}

\* getattr(self, key) for a key of ZmanKeys.
GetAttr(key) ==
    CASE key = "sunrise" -> sunrise
      [] key = "sunset" -> sunset
      [] key = "shaa_zmanit_gra" -> shaa_zmanit_gra
      [] key = "midday" -> midday
      [] key = "alot_hashachar" -> alot_hashachar
      [] key = "misheyakir" -> misheyakir
      [] key = "tset_hakochavim" -> tset_hakochavim
      [] key = "motsei_shabbat" -> motsei_shabbat

utc_zman(key) == PlusMinutes(Datetime(0, "UTC"), GetAttr(key))

\* The names zmanim.py binds at module level: its imports, _LOGGER and the
\* class.  A method body resolves a bare name here (and in the builtins),
\* never in the class.
ModuleNames ==
    {"dt", "logging", "math", "pytz", "htables", "BaseClass", "Location",
     "HDate", "_LOGGER", "Zmanim"}

\* The body calls the bare name utc_zman, not self.utc_zman.
zmanim(key) ==
    IF "utc_zman" \in ModuleNames
      THEN AsTimezone(utc_zman(key), "local")
      ELSE Raise("NameError")

\* today.is_yom_tov or today.is_shabbat, of an HDate.
IsShabbatOrYomTov(hdate) == hdate.is_yom_tov \/ hdate.is_shabbat

_havdalah_datetime ==
    IF havdalah_offset = 0
      THEN zmanim("motsei_shabbat")
      ELSE PlusMinutes(zmanim("sunset"), havdalah_offset)

candle_lighting ==
    IF IsShabbatOrYomTov(today) /\ IsShabbatOrYomTov(tomorrow)
      THEN _havdalah_datetime
    ELSE IF tomorrow.is_shabbat \/ tomorrow.is_yom_tov
      THEN PlusMinutes(zmanim("sunset"), -candle_lighting_offset)
    ELSE None

havdalah ==
    IF today.is_shabbat \/ today.is_yom_tov
      THEN IF tomorrow.is_shabbat \/ tomorrow.is_yom_tov
             THEN None
             ELSE _havdalah_datetime
      ELSE None

\* "x and (y)" evaluates y only when x is true.
issur_melacha_in_effect ==
    IF IsShabbatOrYomTov(today) /\ IsShabbatOrYomTov(tomorrow)
      THEN Bool(TRUE)
    ELSE
      LET second == IF IsShabbatOrYomTov(today)
                      THEN Lt(time, havdalah) ELSE Bool(FALSE)
          third == IF IsShabbatOrYomTov(tomorrow)
                     THEN Gt(time, candle_lighting) ELSE Bool(FALSE)
      IN  IF IsRaise(second) THEN second
          ELSE IF second.val THEN Bool(TRUE)
          ELSE IF IsRaise(third) THEN third
          ELSE IF third.val THEN Bool(TRUE)
          ELSE Bool(FALSE)

-----------------------------------------------------------------------------
(* The Zmanim object: constructed for a date, a location and a current     *)
(* time, then queried.                                                     *)

\* The altitudes in ascending order of depression below the horizon.
Altitudes ==
    <<SUNRISE_DEG, TSET_HAKOCHAVIM_DEG, MOTSEI_SHABBAT_DEG, MISHEYAKIR_DEG,
      ALOT_HASHACHAR_DEG>>

\* The hour angle, in minutes, at which the sun of the modelled days
\* crosses each altitude when it does.
CrossingMinutes == <<365, 390, 402, 415, 440>>

\* A day's geometry: the sun reaches the altitudes lo..hi of Altitudes
\* and no other (the argument of acos is monotone in the altitude: it
\* leaves [-1, 1] above 1 at the shallow end, below -1 at the deep end).
HourAngles ==
    {[deg \in {Altitudes[i] : i \in 1..5} |->
        LET i == CHOOSE k \in 1..5 : Altitudes[k] = deg
        IN  IF lo <= i /\ i <= hi
              THEN [ok |-> TRUE, minutes |-> CrossingMinutes[i]]
              ELSE [ok |-> FALSE, minutes |-> 0]] :
     lo \in 1..6, hi \in 0..5}

HDates ==
    {[is_shabbat |-> s, is_yom_tov |-> y] : s \in BOOLEAN, y \in BOOLEAN}

CandleLightingOffsets == {18, 30}
HavdalahOffsets == {0, 50}
Noons == {580, 720}
Times == {300, 940, 1000}

InitZmanim ==
    /\ pc = "zmanim"
    /\ today \in HDates /\ tomorrow \in HDates
    /\ ~(today.is_shabbat /\ tomorrow.is_shabbat)
    /\ candle_lighting_offset \in CandleLightingOffsets
    /\ havdalah_offset \in HavdalahOffsets
    /\ time \in {Datetime(m, "UTC") : m \in Times}
    /\ noon \in Noons
    /\ hour_angle \in HourAngles
    /\ sunrise = _get_utc_sun_time_deg(SUNRISE_DEG)[1]
    /\ sunset = _get_utc_sun_time_deg(SUNRISE_DEG)[2]
    /\ call = [name |-> "__init__", key |-> ""]
    /\ result = None
    /\ CalIdle /\ YearIdle /\ HebIdle /\ TypeIdle

UtcZman ==
    \E key \in ZmanKeys :
        /\ pc = "zmanim"
        /\ call' = [name |-> "utc_zman", key |-> key]
        /\ result' = utc_zman(key)
        /\ UNCHANGED <<pc, zmFields, calVars, yearVars, hebVars, typeVars>>

ZmanimOf ==
    \E key \in ZmanKeys :
        /\ pc = "zmanim"
        /\ call' = [name |-> "zmanim", key |-> key]
        /\ result' = zmanim(key)
        /\ UNCHANGED <<pc, zmFields, calVars, yearVars, hebVars, typeVars>>

CandleLighting ==
    /\ pc = "zmanim"
    /\ call' = [name |-> "candle_lighting", key |-> ""]
    /\ result' = candle_lighting
    /\ UNCHANGED <<pc, zmFields, calVars, yearVars, hebVars, typeVars>>

Havdalah ==
    /\ pc = "zmanim"
    /\ call' = [name |-> "havdalah", key |-> ""]
    /\ result' = havdalah
    /\ UNCHANGED <<pc, zmFields, calVars, yearVars, hebVars, typeVars>>

IssurMelachaInEffect ==
    /\ pc = "zmanim"
    /\ call' = [name |-> "issur_melacha_in_effect", key |-> ""]
    /\ result' = issur_melacha_in_effect
    /\ UNCHANGED <<pc, zmFields, calVars, yearVars, hebVars, typeVars>>

NextZmanim ==
    UtcZman \/ ZmanimOf \/ CandleLighting \/ Havdalah \/ IssurMelachaInEffect

SpecZmanim == InitZmanim /\ [][NextZmanim]_vars

-----------------------------------------------------------------------------
(* common.py and hdate_julian.py: a Hebrew date handed in by a caller,     *)
(* valid or not, to the HebrewDate constructor and to hdate_to_jd.         *)

\* The values of the enumeration htables.Months: the month codes 1..14.
Months == 1..14

\* HebrewDate.__init__: Months(month) raises ValueError for a value that is
\* no member of the enumeration; year and day are stored as they come.
HebrewDate(year, month, day) ==
    IF month \in Months
      THEN [kind |-> "HebrewDate", year |-> year, month |-> month,
            day |-> day]
      ELSE Raise("ValueError")

\* What a call that returns hands back.
Return(value) == [kind |-> "return", value |-> value]

DaysIn == 0..31
MonthsIn == 0..15

InitHebrew ==
    /\ pc = "hebrew"
    /\ hdate_in \in DaysIn \X MonthsIn \X HebrewYears
    /\ hout = NotYet
    /\ CalIdle /\ YearIdle /\ ZmanimIdle /\ TypeIdle

NewHebrewDate ==
    /\ pc = "hebrew"
    /\ hout' = HebrewDate(hdate_in[3], hdate_in[2], hdate_in[1])
    /\ pc' = "constructed"
    /\ UNCHANGED <<hdate_in, calVars, yearVars, zmVars, typeVars>>

HdateToJdOfInput ==
    /\ pc = "hebrew"
    /\ hout' = Return(hdate_to_jd(hdate_in[1], hdate_in[2], hdate_in[3]))
    /\ pc' = "converted"
    /\ UNCHANGED <<hdate_in, calVars, yearVars, zmVars, typeVars>>

NextHebrew == NewHebrewDate \/ HdateToJdOfInput

SpecHebrew == InitHebrew /\ [][NextHebrew]_vars

-----------------------------------------------------------------------------
(* hdate_julian.py: get_year_type, handed any year length and weekday.     *)

year_types ==
    <<1, 0, 0, 2, 0, 3, 4,
      0, 5, 0, 6, 7, 8, 0,
      9, 10, 0, 11, 0, 0, 12,
      0, 13, 14>>

\* list[i] of Python: a negative index counts from the end, and an index
\* outside -len..len-1 raises IndexError.
ListItem(list, i) ==
    IF i >= 0 /\ i < Len(list) THEN Return(list[i + 1])
    ELSE IF i < 0 /\ i >= -Len(list) THEN Return(list[Len(list) + i + 1])
    ELSE Raise("IndexError")

\* "convert size and first day to 1..24 number".
YearTypeOffset(size_of_year, dw) ==
    (dw + 1) \div 2
    + 4 * (((size_of_year % 10) - 3) + ((size_of_year \div 10) - 35))

get_year_type(size_of_year, dw) ==
    ListItem(year_types, YearTypeOffset(size_of_year, dw) - 1)

YearSizesIn == 290..420
WeekdaysIn == 1..7

InitYearType ==
    /\ pc = "type"
    /\ size \in YearSizesIn
    /\ new_year_dw \in WeekdaysIn
    /\ year_type = NotYet
    /\ hyear = NotYet /\ days3744 = NotYet
    /\ CalIdle /\ ZmanimIdle /\ HebIdle

GetYearType ==
    /\ pc = "type"
    /\ year_type' = get_year_type(size, new_year_dw)
    /\ pc' = "typed"
    /\ UNCHANGED <<new_year_dw, yearVars, calVars, zmVars, hebVars>>

NextYearType == GetYearType

SpecYearType == InitYearType /\ [][NextYearType]_vars

-----------------------------------------------------------------------------
(* The whole library: any of the three uses above.                         *)

Init == InitCal \/ InitYear \/ InitZmanim \/ InitHebrew \/ InitYearType

Next == NextCal \/ NextYear \/ NextZmanim \/ NextHebrew \/ NextYearType

Spec == Init /\ [][Next]_vars

-----------------------------------------------------------------------------
(* Properties of the calendar conversion engine                            *)

\* The day of the week of a Julian day number: 0 is Sunday, ..., 6 is
\* Saturday (Julian day 0 was a Monday).
WeekdayOfJd(jd) == (jd + 1) % 7

\* C1: for every valid Gregorian date of the years MinYear..MaxYear,
\* jd_to_gdate(gdate_to_jd(day, month, year)) is exactly (day, month, year).
C1_CivilRoundTrip == pc = "gdate" => gres = gdate

\* The round trip of 29 February 2000, the leap day of a century year.
C1_Witness == pc = "gdate" /\ gdate = <<29, 2, 2000>> /\ gres = gdate

\* C2: for every Julian day number of the civil years MinYear..MaxYear,
\* hdate_to_jd of the (day, month, year) that jd_to_hdate returns has the
\* same Julian day number as its first result.
C2_HebrewRoundTrip == pc = "hjd" => hjd[1] = jdn

\* The round trip of a day of Adar II (month 14) of a leap year with a
\* short Kislev (383 days).
C2_Witness ==
    /\ pc = "hjd" /\ hjd[1] = jdn
    /\ hres[2] = 14 /\ hres[5] - hres[4] = 383

\* C3: for every Hebrew year of the range, _get_size_of_hebrew_year(year)
\* is one of the six values 353, 354, 355, 383, 384, 385.
C3_SizeOfYear == pc = "size" => size \in {353, 354, 355, 383, 384, 385}

\* A year of 385 days whose size has been computed.
C3_Witness == pc = "size" /\ size = 385

\* C4: for every Hebrew year of the range, the year has at least 383 days
\* exactly when it is the 3rd, 6th, 8th, 11th, 14th, 17th or 19th year of
\* its 19-year cycle.
C4_LeapPattern ==
    pc = "size" => (size >= 383 <=> hyear % 19 \in {3, 6, 8, 11, 14, 17, 0})

\* A leap year that is the 19th of its cycle.
C4_Witness == pc = "size" /\ size >= 383 /\ hyear % 19 = 0

\* C5: for every Hebrew year of the range, the Julian day of Tishrei 1,
\* _days_from_3744(year) + 1715119, is no Sunday, Wednesday or Friday.
C5_TishreiWeekday ==
    pc \in {"days", "size"} =>
        WeekdayOfJd(days3744 + 1715119) \notin {0, 3, 5}

\* A year whose molad zaken deferment added a day and moved the weekday
\* to one that ADU defers again.
C5_Witness ==
    /\ pc = "days"
    /\ IsZaken(hyear) /\ ADU(Molad(hyear).week_day + 1)
    /\ days3744 = Molad(hyear).days + 2

\* C6: civil date 2024-01-01, converted by gdate_to_jd and then
\* jd_to_hdate, is day 20 of Tevet (the 4th month from Tishrei) 5784.
C6_Tevet5784 ==
    (pc = "hdate" /\ gdate = <<1, 1, 2024>>) =>
        (hres[1] = 20 /\ hres[2] = 4 /\ hres[3] = 5784)

\* 2024-01-01 has been converted to a Hebrew date.
C6_Witness ==
    pc = "hdate" /\ gdate = <<1, 1, 2024>> /\ jdn = 2460311 /\ hres[1] = 20

-----------------------------------------------------------------------------
(* Properties of the Zmanim composer                                       *)

\* The sun reaches the altitude on the day of the Zmanim object.
Reaches(deg) == hour_angle[deg].ok

\* r is the datetime m minutes after basetime, in whatever zone.
IsInstant(r, m) == r.kind = "datetime" /\ r.min = m

\* The call name has been evaluated on a day the sun reaches the
\* altitudes of sunset and of three stars.
Evaluated(name) ==
    /\ pc = "zmanim" /\ call.name = name
    /\ Reaches(SUNRISE_DEG) /\ Reaches(MOTSEI_SHABBAT_DEG)

\* The havdalah instant in minutes: the three-stars time when
\* havdalah_offset is 0, otherwise sunset plus havdalah_offset.
HavdalahMinutes ==
    IF havdalah_offset = 0 THEN motsei_shabbat ELSE sunset + havdalah_offset

\* C7: candle_lighting is the havdalah instant when both today and
\* tomorrow are Sabbath/festival, sunset minus candle_lighting_offset when
\* only tomorrow is, and None when tomorrow is not.
C7_CandleLighting ==
    Evaluated("candle_lighting") =>
        IF IsShabbatOrYomTov(today) /\ IsShabbatOrYomTov(tomorrow)
          THEN IsInstant(result, HavdalahMinutes)
        ELSE IF IsShabbatOrYomTov(tomorrow)
          THEN IsInstant(result, sunset - candle_lighting_offset)
        ELSE result = None

\* C8: havdalah has a value exactly when today is Sabbath/festival and
\* tomorrow is not, and the value is the havdalah instant; otherwise it
\* is None.
C8_Havdalah ==
    Evaluated("havdalah") =>
        IF IsShabbatOrYomTov(today) /\ ~IsShabbatOrYomTov(tomorrow)
          THEN IsInstant(result, HavdalahMinutes)
          ELSE result = None

\* C9: issur_melacha_in_effect is true exactly when both today and
\* tomorrow are Sabbath/festival, or today is and the current time is
\* before havdalah, or tomorrow is and the current time is after candle
\* lighting; it is false otherwise, and never raises on a comparison.
C9_IssurMelacha ==
    Evaluated("issur_melacha_in_effect") =>
        result = Bool(
            \/ IsShabbatOrYomTov(today) /\ IsShabbatOrYomTov(tomorrow)
            \/ /\ IsShabbatOrYomTov(today) /\ ~IsShabbatOrYomTov(tomorrow)
               /\ time.min < HavdalahMinutes
            \/ /\ IsShabbatOrYomTov(tomorrow) /\ ~IsShabbatOrYomTov(today)
               /\ time.min > sunset - candle_lighting_offset)

\* The altitude the zman of a key is derived from.
AltitudeOf(key) ==
    CASE key = "alot_hashachar" -> ALOT_HASHACHAR_DEG
      [] key = "misheyakir" -> MISHEYAKIR_DEG
      [] key = "tset_hakochavim" -> TSET_HAKOCHAVIM_DEG
      [] key = "motsei_shabbat" -> MOTSEI_SHABBAT_DEG
      [] OTHER -> SUNRISE_DEG

\* C10: when the sun does not reach the altitude a zman is derived from,
\* the composer reports the zman as not applicable (None), and no instant
\* is basetime plus -720 minutes.
C10_SentinelNotApplicable ==
    (pc = "zmanim" /\ call.name \in {"utc_zman", "zmanim"}) =>
        /\ ~Reaches(AltitudeOf(call.key)) => result = None
        /\ ~IsInstant(result, SENTINEL)

-----------------------------------------------------------------------------
(* Properties of the handling of invalid input                             *)

\* The length of a month of a year of size_of_year days: Cheshvan (2) is
\* long in a year of 355 or 385 days, Kislev (3) short in one of 353 or
\* 383, Adar I (13) has 30 days and Adar II (14) 29, and the other months
\* alternate 30 and 29.
MonthLength(month, size_of_year) ==
    IF month = 2 THEN (IF size_of_year % 10 = 5 THEN 30 ELSE 29)
    ELSE IF month = 3 THEN (IF size_of_year % 10 = 3 THEN 29 ELSE 30)
    ELSE IF month = 13 THEN 30
    ELSE IF month = 14 THEN 29
    ELSE IF month % 2 = 1 THEN 30 ELSE 29

\* <<day, month, year>> is no Hebrew date whatever the reading of the Adar
\* codes: the month code is outside 1..14, the day is below 1 or above
\* 30, or the day is beyond the length of one of the months 1..5, 7..12.
IsInvalidHebrewDate(h) ==
    \/ h[2] \notin 1..14
    \/ h[1] < 1
    \/ h[1] > 30
    \/ /\ h[2] \in (1..5) \cup (7..12)
       /\ h[1] > MonthLength(h[2], _get_size_of_hebrew_year(h[3]))

\* C11: a Hebrew date whose month code is outside 1..14, or whose day is
\* below 1 or beyond the length of the month in that year, is rejected by
\* the HebrewDate constructor and by hdate_to_jd; no Julian day is
\* returned for it.
C11_InvalidRejected ==
    (pc \in {"constructed", "converted"} /\ IsInvalidHebrewDate(hdate_in))
        => hout.kind = "raise"

\* The table of get_year_type's docstring:
\* <<year type, year length, weekday of Tishrei 1>>.
YearTypeTable ==
    {<<1, 353, 2>>, <<2, 353, 7>>, <<3, 354, 3>>, <<4, 354, 5>>,
     <<5, 355, 2>>, <<6, 355, 5>>, <<7, 355, 7>>, <<8, 383, 2>>,
     <<9, 383, 5>>, <<10, 383, 7>>, <<11, 384, 3>>, <<12, 385, 2>>,
     <<13, 385, 5>>, <<14, 385, 7>>}

\* C12: get_year_type returns the documented code for each of the 14
\* valid (year length, weekday) combinations and fails for every other
\* combination: it returns neither 0 nor the code of another combination.
C12_YearType ==
    pc = "typed" =>
        IF \E t \in YearTypeTable : t[2] = size /\ t[3] = new_year_dw
          THEN \E t \in YearTypeTable :
                  /\ t[2] = size /\ t[3] = new_year_dw
                  /\ year_type = Return(t[1])
          ELSE year_type.kind = "raise"

-----------------------------------------------------------------------------
(* Properties of jd_to_hdate over consecutive days                         *)

\* C13: for every Julian day of the range, jd_to_hdate returns a year and
\* boundaries with jd_tishrey1 <= jdn < jd_tishrey1_next_year, where
\* jd_tishrey1 is Tishrei 1 of the returned year; the returned year is
\* the guess (civil year + 3760) or the guess corrected by one year; and
\* the boundaries are those hdate_to_jd returns for the same date.
C13_YearBoundaries ==
    /\ pc \in {"hdate", "hjd", "stepped"} =>
          /\ hres[4] <= jdn /\ jdn < hres[5]
          /\ hres[4] = _days_from_3744(hres[3]) + 1715119
          /\ hres[5] = _days_from_3744(hres[3] + 1) + 1715119
    /\ pc \in {"hdate", "hjd"} => hres[3] - (gdate[3] + 3760) \in {0, 1}
    /\ pc = "hjd" => (hjd[2] = hres[4] /\ hjd[3] = hres[5])

\* A civil day that is Tishrei 1 of the year after the guessed one: the
\* guess was an underestimate and the day is the lower boundary itself.
C13_Witness ==
    /\ pc = "hjd"
    /\ hres[3] = gdate[3] + 3761
    /\ jdn = hres[4]
    /\ hres[1] = 1 /\ hres[2] = 1

\* The month after month in a year of size_of_year days, in calendar
\* order: 1..12 in a common year, 1..5, 13, 14, 7..12 in a leap year.
NextMonth(month, size_of_year) ==
    IF size_of_year >= 383 /\ month = 5 THEN 13
    ELSE IF month = 13 THEN 14
    ELSE IF month = 14 THEN 7
    ELSE month + 1

\* The calendar day after h = <<day, month, year, jd_tishrey1,
\* jd_tishrey1_next_year>>, as <<day, month, year>>.
NextHebrewDay(h) ==
    IF h[1] < MonthLength(h[2], h[5] - h[4]) THEN <<h[1] + 1, h[2], h[3]>>
    ELSE IF h[2] = 12 THEN <<1, 1, h[3] + 1>>
    ELSE <<1, NextMonth(h[2], h[5] - h[4]), h[3]>>

\* The day and month codes of h fit the length of its year.
CodesFitYear(h) ==
    /\ h[1] \in 1..30
    /\ h[2] \in {13, 14} => h[5] - h[4] >= 383
    /\ h[2] = 6 => h[5] - h[4] <= 355

\* C14: jd_to_hdate of the following Julian day is the following calendar
\* day: the same year and month with day + 1, or day 1 of the next month
\* in calendar order (month 12 followed by month 1 of year + 1); every
\* returned day is in 1..30, months 13 and 14 occur only in years of 383
\* days or more and month 6 only in years of 355 days or fewer.
C14_DayStep ==
    /\ pc \in {"hdate", "hjd", "stepped"} => CodesFitYear(hres)
    /\ pc = "stepped" =>
          /\ <<hres[1], hres[2], hres[3]>> = NextHebrewDay(hprev)
          /\ \/ /\ hres[3] = hprev[3] /\ hres[2] = hprev[2]
                /\ hres[1] = hprev[1] + 1
             \/ /\ hres[1] = 1
                /\ \/ /\ hprev[2] = 12 /\ hres[2] = 1
                      /\ hres[3] = hprev[3] + 1
                   \/ /\ hprev[2] # 12 /\ hres[3] = hprev[3]
                      /\ hres[2] = NextMonth(hprev[2], hprev[5] - hprev[4])

\* A step from the last day of Shvat (5) to the first of Adar I (13) in a
\* leap year.
C14_Witness ==
    /\ pc = "stepped"
    /\ hprev[2] = 5 /\ hprev[1] = 30
    /\ hres[2] = 13 /\ hres[1] = 1
    /\ hres[5] - hres[4] >= 383

=============================================================================
